---- MODULE Spec2Model ----
(***************************************************************************)
(* A model of the sitemapper domain crawler (sitemapper.go): the           *)
(* DomainCrawler with its pending URL channel, its WaitGroup, the crawl    *)
(* timeout, the workers running drainURLS / realAllLinks, the SiteMap with *)
(* its double checked appendURL and its WriteMap, the LinkReader, and the  *)
(* Config with NewConfig and Validate (config.go).                         *)
(*                                                                         *)
(* Spec is the crawl of a generated two-page site, RedirectSpec the crawl  *)
(* of the three-path example site, ConfigSpec the call of CrawlDomain from *)
(* any configuration on, WriteMapSpec the writing of a returned site map.  *)
(* FairSpec is Spec with every goroutine scheduled fairly, ReaderSpec one  *)
(* LinkReader under any sequence of Read and Close calls, RenderSpec a     *)
(* WriteMap that runs while a worker is still inside appendURL, and        *)
(* OptionsSpec the call of NewConfig with any short list of options.       *)
(***************************************************************************)
EXTENDS Integers, Sequences, FiniteSets, TLC

\* ------------------------------------------------------------------------
\* Bounds of the model
\* ------------------------------------------------------------------------

\* largest config.MaxConcurrency that is explored
MaxWorkers == 3

\* largest config.MaxPendingURLS that is explored
MaxCap == 2

\* largest number of calls made on one LinkReader
MaxCalls == 4

\* largest number of options handed to NewConfig
MaxOptions == 2

\* the defaults of the configuration (config.go), durations in seconds
DefaultMaxConcurrency == 8
DefaultMaxPendingURLS == 8192
DefaultCrawlTimeout == 0
DefaultTimeout == 10
DefaultKeepAlive == 30

\* ------------------------------------------------------------------------
\* URLs, hrefs and the served site
\* ------------------------------------------------------------------------

Schemes == {"http", "https"}

\* the scheme of the root URL: the server speaks plain http
RootScheme == "http"

RootHost == "h"

ExtHost == "x"

Hosts == {RootHost, ExtHost}

\* the paths the pages of a generated site link to
Paths == {"/", "/a"}

\* every path of the server: a third one is linked only by the example sites
AllPaths == Paths \cup {"/b"}

\* a parsed absolute URL; its String() is the dedup key, and two URLs of the
\* model have the same string exactly when they are the same record
URLs == [scheme : Schemes, host : Hosts, path : AllPaths]

NoURL == [scheme |-> "", host |-> "", path |-> ""]

\* the root URL handed to NewDomainCrawler
root == [scheme |-> RootScheme, host |-> RootHost, path |-> "/"]

\* the raw href strings a page can carry: a relative reference, an absolute
\* URL, or a string url.Parse rejects
RelHref(p) == [kind |-> "rel", scheme |-> "", host |-> "", path |-> p]

AbsHref(s, h, p) == [kind |-> "abs", scheme |-> s, host |-> h, path |-> p]

BadHref == [kind |-> "bad", scheme |-> "", host |-> "", path |-> "%"]

NoHref == [kind |-> "none", scheme |-> "", host |-> "", path |-> ""]

\* a url.Parse that accepts every string
ParseNeverFails(href) == FALSE

\* url.Parse of the href fails
ParseFails(href) == href.kind = "bad"

\* pageURL.ResolveReference(hrefURL): an absolute reference stands for itself,
\* a relative one takes the scheme and the host of the page it was found on
ResolveReference(base, href) ==
    IF href.kind = "abs"
    THEN [scheme |-> href.scheme, host |-> href.host, path |-> href.path]
    ELSE [scheme |-> base.scheme, host |-> base.host, path |-> href.path]

RECURSIVE SeqsUpTo(_, _)
\* all sequences over S of length at most n
SeqsUpTo(S, n) ==
    IF n = 0 THEN {<<>>}
    ELSE LET shorter == SeqsUpTo(S, n - 1)
         IN  shorter \cup {Append(s, x) : s \in {t \in shorter : Len(t) = n - 1}, x \in S}

Page(status, links, tail, location) ==
    [status |-> status, links |-> links, tail |-> tail, location |-> location]

\* no href occurs twice in s
NoRepeat(s) == \A i, j \in 1..Len(s) : s[i] = s[j] => i = j

\* pages answering 200 whose body ends normally and carries in-domain relative
\* links, each at most once, in any order
LinkPages ==
    {Page("ok", s, "eof", NoHref) :
        s \in {t \in SeqsUpTo({RelHref(p) : p \in Paths}, Cardinality(Paths)) : NoRepeat(t)}}

\* the other answers of a server: a failed GET, an in-domain and an external
\* redirect, a body with an unparsable href, an external link and a relative
\* link that ends in a read error, and a body that names one URL twice, as a
\* relative and as an absolute link
OtherPages ==
    { Page("fail", <<>>, "err", NoHref),
      Page("redirect", <<>>, "eof", RelHref("/a")),
      Page("redirect", <<>>, "eof", AbsHref(RootScheme, ExtHost, "/")),
      Page("ok", <<BadHref, AbsHref("https", ExtHost, "/a"), RelHref("/a")>>, "err", NoHref),
      Page("ok", <<RelHref("/a"), AbsHref(RootScheme, RootHost, "/a")>>, "eof", NoHref) }

PageSet == LinkPages \cup OtherPages

\* the answer for a path the server has no page for: a 404 is no error of
\* client.Get and its body carries no link
NotFound == Page("ok", <<>>, "eof", NoHref)

\* the server that answers the paths of s and has no page elsewhere
Serve(s) == [p \in AllPaths |-> IF p \in DOMAIN s THEN s[p] ELSE NotFound]

\* the sites crawled: what the server answers on each path of the root host
Sites == {Serve(s) : s \in [Paths -> PageSet]}

Workers == 1..MaxWorkers

\* ------------------------------------------------------------------------
\* State
\* ------------------------------------------------------------------------

VARIABLES
    config,                 \* Config: MaxConcurrency, MaxPendingURLS, CrawlTimeout
    site,                   \* the server's answer per path
    siteURLS,               \* SiteMap.siteURLS: the strings mapped to true
    pendingURLS,            \* the buffered channel's contents
    closed,                 \* the channel has been closed
    pendingURLSRemaining,   \* the WaitGroup's counter
    waiters,                \* the WaitGroup's number of registered waiters
    accessedPageCount,      \* DomainCrawler.accessedPageCount
    timedOut,               \* DomainCrawler.timedOut
    timerPC,                \* the timeout goroutine: "off", "armed", "fired"
    crawlPC,                \* position of Crawl
    result,                 \* what Crawl returned: "none", "error", "sitemap"
    returnedMap,            \* the contents of the site map at the return
    pc,                     \* position of each drainURLS goroutine
    pageURL,                \* the URL a worker popped
    linkReader,             \* the worker's LinkReader
    hrefResolved,           \* the resolved link being appended
    panicked,               \* the runtime panic that ended the process
    pushes,                 \* history: sends accepted by the channel, per URL
    gets,                   \* history: GETs issued, per URL
    pops,                   \* history: number of receives
    dones,                  \* history: number of Done calls
    dropped,                \* history: URLs whose send was rejected
    admitTrue,              \* history: appendURL calls that returned true
    admitFalse,             \* history: some appendURL call returned false
    firedEarly,             \* history: the timeout fired with work outstanding
    written,                \* the bytes WriteMap wrote to its writer
    readLog,                \* history: the calls made on one LinkReader, with their results
    rwl,                    \* SiteMap.rwl: the number of read locks held, the write lock held
    writePaths,             \* WriteMap's local slice paths, the collected keys
    clients,                \* the http.Client values in memory, by the pointer to them
    options                 \* NewConfig: the options not yet applied

vars == <<config, site, siteURLS, pendingURLS, closed, pendingURLSRemaining,
          waiters, accessedPageCount, timedOut, timerPC, crawlPC, result,
          returnedMap, pc, pageURL, linkReader, hrefResolved,
          panicked, pushes, gets, pops, dones, dropped, admitTrue, admitFalse,
          firedEarly, written, readLog, rwl, writePaths, clients, options>>

crawlVars == <<crawlPC, result, returnedMap>>

workerVars == <<pc, pageURL, linkReader, hrefResolved>>

historyVars == <<pushes, gets, pops, dones, dropped, admitTrue, admitFalse>>

\* the positions at which a worker holds a popped URL it has not marked done
Processing ==
    {"check", "read", "append", "appendLock", "push", "add", "close", "done"}

Launched == {w \in Workers : pc[w] # "idle"}

Holding == {w \in Workers : pc[w] \in Processing}

\* every URL placed in the backlog has been popped and processed to the end
AllProcessed == pendingURLS = <<>> /\ Holding = {}

\* a LinkReader as NewLinkReader leaves it
\* a sync.RWMutex that nobody holds
Unlocked == [readers |-> 0, writer |-> FALSE]

NewLinkReader == [doc |-> FALSE, done |-> FALSE, body |-> "none", pos |-> 0]

\* a nil Client, Logger or DomainValidator
Nil == "nil"

\* Validate returned nil
NoError == "nil error"

\* the errors of Config.Validate, in the order of its checks
ValidateErrors ==
    << "config.MaxConcurrency must be greater than 0",
       "config.MaxPendingURLS must be greater than 0",
       "config.KeepAlive duration should be >= 0s",
       "config.Timeout duration should be >= 0s",
       "config.Client must be defined",
       "config.Logger must be defined",
       "config.DomainValidator must be defined" >>

\* a Validate that looks at the numbers only
ValidateNumbersOnly(c) ==
    IF c.MaxConcurrency <= 0 THEN ValidateErrors[1]
    ELSE IF c.MaxPendingURLS <= 0 THEN ValidateErrors[2]
    ELSE IF c.KeepAlive < 0 THEN ValidateErrors[3]
    ELSE IF c.Timeout < 0 THEN ValidateErrors[4]
    ELSE NoError

\* a Validate that checks the client, the logger and the validator first
ValidatePointersFirst(c) ==
    IF c.Client = Nil THEN ValidateErrors[5]
    ELSE IF c.Logger = Nil THEN ValidateErrors[6]
    ELSE IF c.DomainValidator = Nil THEN ValidateErrors[7]
    ELSE ValidateNumbersOnly(c)

\* Config.Validate: the error of the first failing check, or nil
Validate(c) ==
    IF c.MaxConcurrency <= 0 THEN ValidateErrors[1]
    ELSE IF c.MaxPendingURLS <= 0 THEN ValidateErrors[2]
    ELSE IF c.KeepAlive < 0 THEN ValidateErrors[3]
    ELSE IF c.Timeout < 0 THEN ValidateErrors[4]
    ELSE IF c.Client = Nil THEN ValidateErrors[5]
    ELSE IF c.Logger = Nil THEN ValidateErrors[6]
    ELSE IF c.DomainValidator = Nil THEN ValidateErrors[7]
    ELSE NoError

\* NewConfig after the options were applied: a nil client, logger or domain
\* validator is replaced by the default one
NewConfig(c) ==
    [c EXCEPT !.Client = IF @ = Nil THEN "default client" ELSE @,
              !.Logger = IF @ = Nil THEN "default logger" ELSE @,
              !.DomainValidator = IF @ = Nil THEN "ValidateHosts" ELSE @]

\* NewConfig / Config.Validate: the valid configurations explored
Configs ==
    [MaxConcurrency : 1..MaxWorkers, MaxPendingURLS : 1..MaxCap, CrawlTimeout : {0, 1},
     KeepAlive : {0}, Timeout : {0}, Client : {"default client"},
     Logger : {"default logger"}, DomainValidator : {"ValidateHosts"}]

\* the configurations a caller can hand over, valid or not
AnyConfigs ==
    [MaxConcurrency : {-1, 0, 1}, MaxPendingURLS : {-1, 0, 1}, CrawlTimeout : {-1, 0, 1},
     KeepAlive : {-1, 0}, Timeout : {-1, 0}, Client : {Nil, "default client"},
     Logger : {Nil, "default logger"}, DomainValidator : {Nil, "ValidateHosts"}]

\* the http.Client that NewConfig makes when no client was set: redirects are
\* not followed, the transport allows one connection per goroutine
DefaultClient(c) ==
    [CheckRedirect |-> "overrideRedirect", Transport |-> "new transport",
     MaxConns |-> c.MaxConcurrency, IdleConnTimeout |-> c.KeepAlive,
     Timeout |-> c.Timeout]

\* no client in memory
NoClients == <<>>

\* the memory of a program that holds the client of config c and no other
ClientsOf(c) ==
    IF c.Client = Nil THEN NoClients ELSE (c.Client :> DefaultClient(c))

\* NewDomainCrawler: the channel holds the root, the WaitGroup counts it, the
\* site map is empty
InitWith(cfgs, sites) ==
    /\ config \in cfgs
    /\ site \in sites
    /\ siteURLS = {}
    /\ pendingURLS = <<root>>
    /\ closed = FALSE
    /\ pendingURLSRemaining = 1
    /\ waiters = 0
    /\ accessedPageCount = 0
    /\ timedOut = FALSE
    /\ timerPC = "off"
    /\ crawlPC = "new"
    /\ result = "none"
    /\ returnedMap = {}
    /\ pc = [w \in Workers |-> "idle"]
    /\ pageURL = [w \in Workers |-> NoURL]
    /\ linkReader = [w \in Workers |-> NewLinkReader]
    /\ hrefResolved = [w \in Workers |-> NoURL]
    /\ panicked = "none"
    /\ pushes = [u \in URLs |-> IF u = root THEN 1 ELSE 0]
    /\ gets = [u \in URLs |-> 0]
    /\ pops = 0
    /\ dones = 0
    /\ dropped = {}
    /\ admitTrue = [u \in URLs |-> 0]
    /\ admitFalse = [u \in URLs |-> FALSE]
    /\ firedEarly = FALSE
    /\ written = <<>>
    /\ readLog = <<>>
    /\ rwl = Unlocked
    /\ writePaths = <<>>
    /\ clients = ClientsOf(config)
    /\ options = <<>>

Init == InitWith(Configs, Sites)

\* ------------------------------------------------------------------------
\* LinkReader
\* ------------------------------------------------------------------------

\* what client.Get answers for a URL: only the root host is served, over
\* the root's scheme
Get(url) ==
    IF url.scheme = RootScheme /\ url.host = RootHost /\ url.path \in AllPaths
    THEN site[url.path]
    ELSE Page("fail", <<>>, "err", NoHref)

ReadResult(r, kind, href, get) ==
    [reader |-> r, kind |-> kind, href |-> href, get |-> get]

\* a tokenizer loop that reports io.EOF for every error token and leaves the
\* body open
ReadTokenAlwaysEOF(r, page, get) ==
    IF r.pos < Len(page.links)
    THEN ReadResult([r EXCEPT !.pos = r.pos + 1], "href", page.links[r.pos + 1], get)
    ELSE ReadResult(r, "eof", NoHref, get)

\* the tokenizer loop of Read: the next href of the body, or the error token,
\* on which the body is closed and doc.Err() returned
ReadToken(r, page, get) ==
    IF r.pos < Len(page.links)
    THEN ReadResult([r EXCEPT !.pos = r.pos + 1], "href", page.links[r.pos + 1], get)
    ELSE ReadResult([r EXCEPT !.body = "closed"],
                    IF page.tail = "eof" THEN "eof" ELSE "err", NoHref, get)

\* a redirect branch that forgets u.done = true
RedirectedNotDone(r) == [r EXCEPT !.doc = TRUE, !.body = "closed"]

\* the 3xx branch of Read: the tokenizer is created, the body is closed and the
\* reader is marked done
Redirected(r) == [r EXCEPT !.doc = TRUE, !.body = "closed", !.done = TRUE]

\* LinkReader.Read on the reader r of the page at url
Read(r, url) ==
    LET page == Get(url)
    IN  IF r.done
        THEN ReadResult(r, "eof", NoHref, FALSE)
        ELSE IF ~r.doc
        THEN IF page.status = "fail"
             THEN ReadResult(r, "err", NoHref, TRUE)
             ELSE IF page.status = "redirect"
             THEN \* resp.Location() resolves the header against the request URL
                  LET loc == ResolveReference(url, page.location)
                  IN  ReadResult(Redirected(r), "href", AbsHref(loc.scheme, loc.host, loc.path), TRUE)
             ELSE ReadToken([r EXCEPT !.doc = TRUE, !.body = "open"], page, TRUE)
        ELSE ReadToken(r, page, FALSE)

\* a Close that closes the body without asking whether there is a response
CloseWithoutNilCheck(r) == [r EXCEPT !.done = TRUE, !.body = "closed"]

\* LinkReader.Close
Close(r) ==
    [r EXCEPT !.done = TRUE,
              !.body = IF r.body = "open" THEN "closed" ELSE r.body]

\* ------------------------------------------------------------------------
\* SiteMap
\* ------------------------------------------------------------------------

\* a validator that compares the schemes instead of the hosts
ValidateSchemes(rootURL, link) == rootURL.scheme = link.scheme

\* a validator that accepts every link
ValidateAnyHost(rootURL, link) == TRUE

\* ValidateHosts, the default domain validator
ValidateHosts(rootURL, link) == rootURL.host = link.host

\* the URLs the default validator accepts for the root
InDomain == {u \in URLs : ValidateHosts(root, u)}

\* ------------------------------------------------------------------------
\* Crawl
\* ------------------------------------------------------------------------

\* a panic ends the process: nothing runs after it
Running == panicked = "none"

\* a Crawl that starts the timeout goroutine for every non-zero timeout
TimerStartedNonZero(crawlTimeout) == crawlTimeout # 0

\* if crawlTimeout > 0: the timeout goroutine is started
TimerStarted(crawlTimeout) == crawlTimeout > 0

\* Crawl starts config.MaxConcurrency goroutines running drainURLS and, when
\* a timeout is configured, the goroutine that sets timedOut
CrawlLaunch ==
    /\ Running
    /\ crawlPC = "new"
    /\ crawlPC' = "wait"
    /\ pc' = [w \in Workers |-> IF w <= config.MaxConcurrency THEN "pop" ELSE "idle"]
    /\ timerPC' = IF TimerStarted(config.CrawlTimeout) THEN "armed" ELSE "off"
    /\ UNCHANGED <<config, site, siteURLS, pendingURLS, closed, pendingURLSRemaining,
                   waiters, accessedPageCount, timedOut, result, returnedMap,
                   pageURL, linkReader, hrefResolved, panicked>>
    /\ UNCHANGED historyVars
    /\ UNCHANGED <<firedEarly, written, readLog, rwl, writePaths, clients, options>>

\* the timeout goroutine: time.Sleep(crawlTimeout); timedOut.Store(true)
TimerFire ==
    /\ Running
    /\ timerPC = "armed"
    /\ timerPC' = "fired"
    /\ timedOut' = TRUE
    /\ firedEarly' = ~AllProcessed
    /\ UNCHANGED <<written, readLog, rwl, writePaths, clients, options>>
    /\ UNCHANGED <<config, site, siteURLS, pendingURLS, closed, pendingURLSRemaining,
                   waiters, accessedPageCount, panicked>>
    /\ UNCHANGED <<crawlVars, workerVars, historyVars>>

\* pendingURLSRemaining.Wait(): returns at once on a zero counter, else
\* registers as a waiter and blocks
CrawlWait ==
    /\ Running
    /\ crawlPC = "wait"
    /\ IF pendingURLSRemaining = 0
       THEN crawlPC' = "close" /\ waiters' = waiters
       ELSE crawlPC' = "blocked" /\ waiters' = waiters + 1
    /\ UNCHANGED <<config, site, siteURLS, pendingURLS, closed, pendingURLSRemaining,
                   accessedPageCount, timedOut, timerPC, result, returnedMap, panicked>>
    /\ UNCHANGED <<workerVars, historyVars>>
    /\ UNCHANGED <<firedEarly, written, readLog, rwl, writePaths, clients, options>>

\* close(crawler.pendingURLS)
CrawlClose ==
    /\ Running
    /\ crawlPC = "close"
    /\ crawlPC' = "load"
    /\ closed' = TRUE
    /\ UNCHANGED <<config, site, siteURLS, pendingURLS, pendingURLSRemaining, waiters,
                   accessedPageCount, timedOut, timerPC, result, returnedMap, panicked>>
    /\ UNCHANGED <<workerVars, historyVars>>
    /\ UNCHANGED <<firedEarly, written, readLog, rwl, writePaths, clients, options>>

\* the test of accessedPageCount and the return of Crawl
CrawlReturn ==
    /\ Running
    /\ crawlPC = "load"
    /\ crawlPC' = "returned"
    /\ IF accessedPageCount = 0
       THEN result' = "error" /\ returnedMap' = {}
       ELSE result' = "sitemap" /\ returnedMap' = siteURLS
    /\ UNCHANGED <<config, site, siteURLS, pendingURLS, closed, pendingURLSRemaining,
                   waiters, accessedPageCount, timedOut, timerPC, panicked>>
    /\ UNCHANGED <<workerVars, historyVars>>
    /\ UNCHANGED <<firedEarly, written, readLog, rwl, writePaths, clients, options>>

\* ------------------------------------------------------------------------
\* drainURLS and realAllLinks, one goroutine per worker
\* ------------------------------------------------------------------------

\* what a worker carries between two URLs
Idle(w) ==
    /\ pageURL' = [pageURL EXCEPT ![w] = NoURL]
    /\ linkReader' = [linkReader EXCEPT ![w] = NewLinkReader]
    /\ hrefResolved' = [hrefResolved EXCEPT ![w] = NoURL]

\* the goroutines blocked in the receive are interchangeable (they carry no
\* state between two URLs): a value goes to the first of them
FirstReceiver(w) == \A v \in Workers : pc[v] = "pop" => w <= v

\* for pageURL := range crawler.pendingURLS: receive the head of the channel,
\* or leave the loop when the channel is closed and drained
WorkerPop(w) ==
    /\ Running
    /\ pc[w] = "pop"
    /\ pendingURLS # <<>> \/ closed
    /\ pendingURLS # <<>> => FirstReceiver(w)
    /\ IF pendingURLS # <<>>
       THEN /\ pageURL' = [pageURL EXCEPT ![w] = Head(pendingURLS)]
            /\ pendingURLS' = Tail(pendingURLS)
            /\ pc' = [pc EXCEPT ![w] = "check"]
            /\ pops' = pops + 1
       ELSE /\ pc' = [pc EXCEPT ![w] = "exited"]
            /\ UNCHANGED <<pageURL, pendingURLS, pops>>
    /\ UNCHANGED <<config, site, siteURLS, closed, pendingURLSRemaining, waiters,
                   accessedPageCount, timedOut, timerPC, linkReader,
                   hrefResolved, panicked>>
    /\ UNCHANGED <<crawlVars, pushes, gets, dones, dropped, admitTrue, admitFalse>>
    /\ UNCHANGED <<firedEarly, written, readLog, rwl, writePaths, clients, options>>

\* a drainURLS whose timeout branch goes straight to the next receive
AfterSkipNoDone == "pop"

\* a drainURLS that makes the reader although timedOut is set
AfterSkipRead == "read"

\* where drainURLS goes when timedOut is set: past the reader, to Done
AfterSkip == "done"

\* a check that takes the flag and clears it
AfterSwap(flag) == FALSE

\* the flag after crawler.timedOut.Load(): a load leaves it as it is
AfterLoad(flag) == flag

\* if crawler.timedOut.Load(): skip the page, else make its LinkReader
WorkerCheck(w) ==
    /\ Running
    /\ pc[w] = "check"
    /\ timedOut' = AfterLoad(timedOut)
    /\ IF timedOut
       THEN /\ pc' = [pc EXCEPT ![w] = AfterSkip]
            /\ IF AfterSkip = "pop" THEN Idle(w)
               ELSE UNCHANGED <<pageURL, linkReader, hrefResolved>>
       ELSE /\ pc' = [pc EXCEPT ![w] = "read"]
            /\ linkReader' = [linkReader EXCEPT ![w] = NewLinkReader]
            /\ UNCHANGED <<pageURL, hrefResolved>>
    /\ UNCHANGED <<config, site, siteURLS, pendingURLS, closed, pendingURLSRemaining,
                   waiters, accessedPageCount, timerPC, panicked>>
    /\ UNCHANGED <<crawlVars, historyVars>>
    /\ UNCHANGED <<firedEarly, written, readLog, rwl, writePaths, clients, options>>

\* one turn of the loop of realAllLinks up to appendURL: linkReader.Read(),
\* where any error, io.EOF included, leaves the loop; then
\* accessedPageCount.Add(1), url.Parse, whose failure skips the link, and
\* ResolveReference against the page
WorkerRead(w) ==
    /\ Running
    /\ pc[w] = "read"
    /\ LET res == Read(linkReader[w], pageURL[w])
       IN  /\ linkReader' = [linkReader EXCEPT ![w] = res.reader]
           /\ gets' = IF res.get
                      THEN [gets EXCEPT ![pageURL[w]] = @ + 1]
                      ELSE gets
           /\ IF res.kind # "href"
              THEN /\ pc' = [pc EXCEPT ![w] = "close"]
                   /\ UNCHANGED <<accessedPageCount, hrefResolved>>
              ELSE /\ accessedPageCount' = accessedPageCount + 1
                   /\ IF ParseFails(res.href)
                      THEN UNCHANGED <<pc, hrefResolved>>
                      ELSE /\ pc' = [pc EXCEPT ![w] = "append"]
                           /\ hrefResolved' = [hrefResolved EXCEPT
                                  ![w] = ResolveReference(pageURL[w], res.href)]
    /\ UNCHANGED <<config, site, siteURLS, pendingURLS, closed, pendingURLSRemaining,
                   waiters, timedOut, timerPC, pageURL, panicked>>
    /\ UNCHANGED <<crawlVars, pushes, pops, dones, dropped, admitTrue, admitFalse>>
    /\ UNCHANGED <<firedEarly, written, readLog, rwl, writePaths, clients, options>>

\* maybeCrawl := !s.siteURLS[urlString], read under the read lock
MaybeCrawl(urls, u) == u \notin urls

\* an appendURL that trusts the check made under the read lock
CrawlUnderLockNoRecheck(urls, u) == TRUE

\* crawl := !s.siteURLS[urlString], read again under the write lock
CrawlUnderLock(urls, u) == u \notin urls

\* appendURL up to RUnlock: the validator, then the check under the read lock
AppendURLCheck(w) ==
    /\ Running
    /\ pc[w] = "append"
    /\ IF ValidateHosts(root, hrefResolved[w]) /\ MaybeCrawl(siteURLS, hrefResolved[w])
       THEN /\ pc' = [pc EXCEPT ![w] = "appendLock"]
            /\ UNCHANGED <<hrefResolved, admitFalse>>
       ELSE /\ pc' = [pc EXCEPT ![w] = "read"]
            /\ hrefResolved' = [hrefResolved EXCEPT ![w] = NoURL]
            /\ admitFalse' = [admitFalse EXCEPT ![hrefResolved[w]] = TRUE]
    /\ UNCHANGED <<config, site, siteURLS, pendingURLS, closed, pendingURLSRemaining,
                   waiters, accessedPageCount, timedOut, timerPC, pageURL, linkReader, panicked>>
    /\ UNCHANGED <<crawlVars, pushes, gets, pops, dones, dropped, admitTrue>>
    /\ UNCHANGED <<firedEarly, written, readLog, rwl, writePaths, clients, options>>

\* appendURL from Lock to the return: check again, mark the URL, return crawl
AppendURLLock(w) ==
    /\ Running
    /\ pc[w] = "appendLock"
    /\ siteURLS' = siteURLS \cup {hrefResolved[w]}
    /\ IF CrawlUnderLock(siteURLS, hrefResolved[w])
       THEN /\ pc' = [pc EXCEPT ![w] = "push"]
            /\ admitTrue' = [admitTrue EXCEPT ![hrefResolved[w]] = @ + 1]
            /\ UNCHANGED <<hrefResolved, admitFalse>>
       ELSE /\ pc' = [pc EXCEPT ![w] = "read"]
            /\ hrefResolved' = [hrefResolved EXCEPT ![w] = NoURL]
            /\ admitFalse' = [admitFalse EXCEPT ![hrefResolved[w]] = TRUE]
            /\ UNCHANGED admitTrue
    /\ UNCHANGED <<config, site, pendingURLS, closed, pendingURLSRemaining, waiters,
                   accessedPageCount, timedOut, timerPC, pageURL, linkReader, panicked>>
    /\ UNCHANGED <<crawlVars, pushes, gets, pops, dones, dropped>>
    /\ UNCHANGED <<firedEarly, written, readLog, rwl, writePaths, clients, options>>

\* a plain send, which waits for room in the buffer
SendReadyBlocking(q, cap) == Len(q) < cap

\* a select with a default case is always ready to run
SendReady(q, cap) == TRUE

\* a buffer that takes one entry more than its capacity
SendAcceptedOffByOne(q, cap) == Len(q) <= cap

\* the send case of the select is taken when the buffer has room
SendAccepted(q, cap) == Len(q) < cap

\* a send that is not followed by its Add
AddOneForgotten(n) == n

\* the counter after pendingURLSRemaining.Add(1)
AddOne(n) == n + 1

\* select { case crawler.pendingURLS <- hrefResolved: ... default: ... };
\* a send on a closed channel panics
WorkerPush(w) ==
    /\ Running
    /\ pc[w] = "push"
    /\ SendReady(pendingURLS, config.MaxPendingURLS)
    /\ IF closed
       THEN /\ panicked' = "send on closed channel"
            /\ UNCHANGED <<pendingURLS, pc, hrefResolved, pushes, dropped>>
       ELSE IF SendAccepted(pendingURLS, config.MaxPendingURLS)
       THEN /\ pendingURLS' = Append(pendingURLS, hrefResolved[w])
            /\ pushes' = [pushes EXCEPT ![hrefResolved[w]] = @ + 1]
            /\ pc' = [pc EXCEPT ![w] = "add"]
            /\ UNCHANGED <<hrefResolved, dropped, panicked>>
       ELSE /\ dropped' = dropped \cup {hrefResolved[w]}
            /\ pc' = [pc EXCEPT ![w] = "read"]
            /\ hrefResolved' = [hrefResolved EXCEPT ![w] = NoURL]
            /\ UNCHANGED <<pendingURLS, pushes, panicked>>
    /\ UNCHANGED <<config, site, siteURLS, closed, pendingURLSRemaining, waiters,
                   accessedPageCount, timedOut, timerPC, pageURL, linkReader>>
    /\ UNCHANGED <<crawlVars, gets, pops, dones, admitTrue, admitFalse>>
    /\ UNCHANGED <<firedEarly, written, readLog, rwl, writePaths, clients, options>>

\* crawler.pendingURLSRemaining.Add(1), after the send; an Add that takes the
\* counter from zero while a waiter is registered panics
WorkerAdd(w) ==
    /\ Running
    /\ pc[w] = "add"
    /\ pendingURLSRemaining' = AddOne(pendingURLSRemaining)
    /\ IF waiters > 0 /\ pendingURLSRemaining' = 1
       THEN /\ panicked' = "WaitGroup misuse"
            /\ UNCHANGED <<pc, hrefResolved>>
       ELSE /\ pc' = [pc EXCEPT ![w] = "read"]
            /\ hrefResolved' = [hrefResolved EXCEPT ![w] = NoURL]
            /\ UNCHANGED panicked
    /\ UNCHANGED <<config, site, siteURLS, pendingURLS, closed, waiters,
                   accessedPageCount, timedOut, timerPC, pageURL, linkReader>>
    /\ UNCHANGED <<crawlVars, historyVars>>
    /\ UNCHANGED <<firedEarly, written, readLog, rwl, writePaths, clients, options>>

\* linkReader.Close()
WorkerClose(w) ==
    /\ Running
    /\ pc[w] = "close"
    /\ linkReader' = [linkReader EXCEPT ![w] = Close(linkReader[w])]
    /\ pc' = [pc EXCEPT ![w] = "done"]
    /\ UNCHANGED <<config, site, siteURLS, pendingURLS, closed, pendingURLSRemaining,
                   waiters, accessedPageCount, timedOut, timerPC, pageURL,
                   hrefResolved, panicked>>
    /\ UNCHANGED <<crawlVars, historyVars>>
    /\ UNCHANGED <<firedEarly, written, readLog, rwl, writePaths, clients, options>>

\* crawler.pendingURLSRemaining.Done(): the counter is decremented; a negative
\* counter panics; on zero with a waiter registered the waiter is released
\* next (WorkerRelease)
WorkerDone(w) ==
    /\ Running
    /\ pc[w] = "done"
    /\ pendingURLSRemaining' = pendingURLSRemaining - 1
    /\ dones' = dones + 1
    /\ Idle(w)
    /\ IF pendingURLSRemaining' < 0
       THEN /\ panicked' = "negative WaitGroup counter"
            /\ pc' = [pc EXCEPT ![w] = "dead"]
       ELSE /\ UNCHANGED panicked
            /\ pc' = [pc EXCEPT ![w] = IF pendingURLSRemaining' = 0 /\ waiters > 0
                                       THEN "release" ELSE "pop"]
    /\ UNCHANGED <<config, site, siteURLS, pendingURLS, closed, waiters,
                   accessedPageCount, timedOut, timerPC>>
    /\ UNCHANGED <<crawlVars, pushes, gets, pops, dropped, admitTrue, admitFalse>>
    /\ UNCHANGED <<firedEarly, written, readLog, rwl, writePaths, clients, options>>

\* the end of Done on a zero counter: the waiter, Crawl, is released
WorkerRelease(w) ==
    /\ Running
    /\ pc[w] = "release"
    /\ waiters' = 0
    /\ IF pendingURLSRemaining # 0
       THEN /\ panicked' = "WaitGroup misuse"
            /\ UNCHANGED <<pc, crawlPC>>
       ELSE /\ crawlPC' = "close"
            /\ pc' = [pc EXCEPT ![w] = "pop"]
            /\ UNCHANGED panicked
    /\ UNCHANGED <<config, site, siteURLS, pendingURLS, closed, pendingURLSRemaining,
                   accessedPageCount, timedOut, timerPC, result, returnedMap, pageURL,
                   linkReader, hrefResolved>>
    /\ UNCHANGED historyVars
    /\ UNCHANGED <<firedEarly, written, readLog, rwl, writePaths, clients, options>>

Worker(w) ==
    \/ WorkerPop(w)
    \/ WorkerCheck(w)
    \/ WorkerRead(w)
    \/ AppendURLCheck(w)
    \/ AppendURLLock(w)
    \/ WorkerPush(w)
    \/ WorkerAdd(w)
    \/ WorkerClose(w)
    \/ WorkerDone(w)
    \/ WorkerRelease(w)

Crawl ==
    \/ CrawlLaunch
    \/ CrawlWait
    \/ CrawlClose
    \/ CrawlReturn

Next ==
    \/ Crawl
    \/ TimerFire
    \/ \E w \in Workers : Worker(w)

Spec == Init /\ [][Next]_vars

\* the Go scheduler runs every goroutine that can run: Crawl, the timeout
\* goroutine, whose Sleep ends, and each drainURLS
Fairness ==
    /\ WF_vars(Crawl)
    /\ WF_vars(TimerFire)
    /\ \A w \in Workers : WF_vars(Worker(w))

FairSpec == Spec /\ Fairness

\* ------------------------------------------------------------------------
\* The example site of the tests: a root page that links a page and a path
\* answering with a redirect
\* ------------------------------------------------------------------------

\* the pages a path of the example site can answer with
ExamplePages ==
    [ {"/", "/a", "/b"} ->
        { Page("ok", <<RelHref("/a"), RelHref("/b")>>, "eof", NoHref),
          Page("ok", <<RelHref("/b")>>, "eof", NoHref),
          Page("ok", <<>>, "eof", NoHref),
          Page("redirect", <<>>, "eof", RelHref("/")),
          Page("redirect", <<>>, "eof", RelHref("/a")),
          Page("redirect", <<>>, "eof", AbsHref(RootScheme, ExtHost, "/")) } ]

\* the root is a page that links the redirecting path, /a is a page and /b
\* redirects, inside the domain or out of it
ExampleSites ==
    {s \in ExamplePages :
        /\ s["/"].status = "ok" /\ s["/"].links # <<>>
        /\ s["/a"].status = "ok" /\ Len(s["/a"].links) <= 1
        /\ s["/b"].status = "redirect"}

RedirectInit == InitWith(Configs, ExampleSites)

RedirectSpec == RedirectInit /\ [][Next]_vars

\* ------------------------------------------------------------------------
\* CrawlDomain from the configuration on: NewConfig, Validate and
\* NewDomainCrawler come before the crawl
\* ------------------------------------------------------------------------

\* before NewDomainCrawler: no channel, no WaitGroup, no site map. At
\* "options" config holds what the options of CrawlDomain set and NewConfig
\* is still to fill the defaults; at "start" NewDomainCrawler is called with
\* the config as it is
ConfigInit ==
    /\ config \in AnyConfigs
    /\ site \in Sites
    /\ crawlPC \in {"options", "start"}
    /\ siteURLS = {}
    /\ pendingURLS = <<>>
    /\ closed = FALSE
    /\ pendingURLSRemaining = 0
    /\ waiters = 0
    /\ accessedPageCount = 0
    /\ timedOut = FALSE
    /\ timerPC = "off"
    /\ result = "none"
    /\ returnedMap = {}
    /\ pc = [w \in Workers |-> "idle"]
    /\ pageURL = [w \in Workers |-> NoURL]
    /\ linkReader = [w \in Workers |-> NewLinkReader]
    /\ hrefResolved = [w \in Workers |-> NoURL]
    /\ panicked = "none"
    /\ pushes = [u \in URLs |-> 0]
    /\ gets = [u \in URLs |-> 0]
    /\ pops = 0
    /\ dones = 0
    /\ dropped = {}
    /\ admitTrue = [u \in URLs |-> 0]
    /\ admitFalse = [u \in URLs |-> FALSE]
    /\ firedEarly = FALSE
    /\ written = <<>>
    /\ readLog = <<>>
    /\ rwl = Unlocked
    /\ writePaths = <<>>
    /\ clients = ClientsOf(config)
    /\ options = <<>>

\* CrawlDomainWithURL: config := NewConfig(opts...)
CrawlDomainWithURL ==
    /\ Running
    /\ crawlPC = "options"
    /\ options = <<>>
    /\ crawlPC' = "start"
    /\ config' = NewConfig(config)
    /\ clients' = IF config.Client = Nil
                  THEN (NewConfig(config).Client :> DefaultClient(config)) @@ clients
                  ELSE clients
    /\ UNCHANGED <<site, siteURLS, pendingURLS, closed, pendingURLSRemaining, waiters,
                   accessedPageCount, timedOut, timerPC, result, returnedMap, panicked>>
    /\ UNCHANGED <<workerVars, historyVars>>
    /\ UNCHANGED <<firedEarly, written, readLog, rwl, writePaths, options>>

\* NewDomainCrawler: an invalid config is returned as the error of the call;
\* else the channel is made and holds the root, and the WaitGroup counts it
NewDomainCrawler ==
    /\ Running
    /\ crawlPC = "start"
    /\ IF Validate(config) # NoError
       THEN /\ crawlPC' = "returned"
            /\ result' = Validate(config)
            /\ UNCHANGED <<siteURLS, pendingURLS, pendingURLSRemaining, pushes>>
       ELSE /\ crawlPC' = "new"
            /\ siteURLS' = {}
            /\ pendingURLS' = <<root>>
            /\ pendingURLSRemaining' = 1
            /\ pushes' = [pushes EXCEPT ![root] = @ + 1]
            /\ UNCHANGED result
    /\ UNCHANGED <<config, site, closed, waiters, accessedPageCount, timedOut, timerPC,
                   returnedMap, panicked>>
    /\ UNCHANGED <<workerVars, gets, pops, dones, dropped, admitTrue, admitFalse>>
    /\ UNCHANGED <<firedEarly, written, readLog, rwl, writePaths, clients, options>>

ConfigNext ==
    \/ CrawlDomainWithURL
    \/ NewDomainCrawler
    \/ Crawl
    \/ TimerFire
    \/ \E w \in Workers : Worker(w)

ConfigSpec == ConfigInit /\ [][ConfigNext]_vars

\* ------------------------------------------------------------------------
\* NewConfig: the options applied one by one to the defaults, then the
\* defaults for what is still nil
\* ------------------------------------------------------------------------

\* the pointers to http.Client values
CallerClient == "caller client"
OverrideClient == "override client"

\* the clients a caller can hand to SetClient: with no redirect policy, with
\* its own, or with the crawler's; with or without a request timeout
CallerClients ==
    [CheckRedirect : {Nil, "caller policy", "overrideRedirect"},
     Transport : {"caller transport"}, MaxConns : {0}, IdleConnTimeout : {0},
     Timeout : {0, 1}]

\* the options explored: SetClient(nil), SetClient(c), SetMaxConcurrency(n),
\* SetTimeout(t)
Option(name, client, value) == [name |-> name, client |-> client, value |-> value]

Options ==
    {Option("SetClient", c, 0) : c \in {Nil, CallerClient}}
        \cup {Option("SetMaxConcurrency", Nil, n) : n \in {0, 1}}
        \cup {Option("SetTimeout", Nil, t) : t \in {0, 1}}

\* http.Client.CheckRedirect decides: nil follows up to ten redirects, a
\* policy of the caller may follow, overrideRedirect returns
\* http.ErrUseLastResponse and the 3xx response is handed to the caller of Get
FollowsRedirects(client) == client.CheckRedirect # "overrideRedirect"

\* a SetClient that installs the caller's client itself, after replacing its
\* redirect policy
SetClientInPlace(c, heap, client) ==
    IF client = Nil
    THEN [config |-> [c EXCEPT !.Client = Nil], clients |-> heap]
    ELSE [config |-> [c EXCEPT !.Client = client],
          clients |-> [heap EXCEPT ![client].CheckRedirect = "overrideRedirect"]]

\* SetClient(client) applied to config c with the clients of heap in memory:
\* nil clears the client; else a copy of *client with CheckRedirect replaced
\* is allocated and config.Client points to it
SetClient(c, heap, client) ==
    IF client = Nil
    THEN [config |-> [c EXCEPT !.Client = Nil], clients |-> heap]
    ELSE [config |-> [c EXCEPT !.Client = OverrideClient],
          clients |-> (OverrideClient :>
                          [heap[client] EXCEPT !.CheckRedirect = "overrideRedirect"])
                      @@ heap]

\* NewConfig starts from the defaults, with no client, logger or validator,
\* and is handed a list of options; the caller holds one client
OptionsInit ==
    /\ config = [MaxConcurrency |-> DefaultMaxConcurrency,
                 MaxPendingURLS |-> DefaultMaxPendingURLS,
                 CrawlTimeout |-> DefaultCrawlTimeout,
                 KeepAlive |-> DefaultKeepAlive, Timeout |-> DefaultTimeout,
                 Client |-> Nil, Logger |-> Nil, DomainValidator |-> Nil]
    /\ clients \in {(CallerClient :> c) : c \in CallerClients}
    /\ options \in SeqsUpTo(Options, MaxOptions)
    /\ site \in {Serve([p \in Paths |-> NotFound])}
    /\ crawlPC = "options"
    /\ siteURLS = {}
    /\ pendingURLS = <<>>
    /\ closed = FALSE
    /\ pendingURLSRemaining = 0
    /\ waiters = 0
    /\ accessedPageCount = 0
    /\ timedOut = FALSE
    /\ timerPC = "off"
    /\ result = "none"
    /\ returnedMap = {}
    /\ pc = [w \in Workers |-> "idle"]
    /\ pageURL = [w \in Workers |-> NoURL]
    /\ linkReader = [w \in Workers |-> NewLinkReader]
    /\ hrefResolved = [w \in Workers |-> NoURL]
    /\ panicked = "none"
    /\ pushes = [u \in URLs |-> 0]
    /\ gets = [u \in URLs |-> 0]
    /\ pops = 0
    /\ dones = 0
    /\ dropped = {}
    /\ admitTrue = [u \in URLs |-> 0]
    /\ admitFalse = [u \in URLs |-> FALSE]
    /\ firedEarly = FALSE
    /\ written = <<>>
    /\ readLog = <<>>
    /\ rwl = Unlocked
    /\ writePaths = <<>>

\* what an option leaves alone besides config, clients and options
OptionFrame ==
    /\ UNCHANGED <<site, siteURLS, pendingURLS, closed, pendingURLSRemaining, waiters,
                   accessedPageCount, timedOut, timerPC, panicked>>
    /\ UNCHANGED <<crawlVars, workerVars, historyVars>>
    /\ UNCHANGED <<firedEarly, written, readLog, rwl, writePaths>>

\* opt.apply(config) for a SetClient option
ApplySetClient ==
    /\ crawlPC = "options"
    /\ options # <<>>
    /\ Head(options).name = "SetClient"
    /\ LET set == SetClient(config, clients, Head(options).client)
       IN  /\ config' = set.config
           /\ clients' = set.clients
    /\ options' = Tail(options)
    /\ OptionFrame

\* opt.apply(config) for a SetMaxConcurrency option
ApplySetMaxConcurrency ==
    /\ crawlPC = "options"
    /\ options # <<>>
    /\ Head(options).name = "SetMaxConcurrency"
    /\ config' = [config EXCEPT !.MaxConcurrency = Head(options).value]
    /\ options' = Tail(options)
    /\ UNCHANGED clients
    /\ OptionFrame

\* opt.apply(config) for a SetTimeout option
ApplySetTimeout ==
    /\ crawlPC = "options"
    /\ options # <<>>
    /\ Head(options).name = "SetTimeout"
    /\ config' = [config EXCEPT !.Timeout = Head(options).value]
    /\ options' = Tail(options)
    /\ UNCHANGED clients
    /\ OptionFrame

OptionsNext ==
    \/ ApplySetClient
    \/ ApplySetMaxConcurrency
    \/ ApplySetTimeout
    \/ CrawlDomainWithURL

OptionsSpec == OptionsInit /\ [][OptionsNext]_vars

\* ------------------------------------------------------------------------
\* SiteMap.WriteMap
\* ------------------------------------------------------------------------

\* the bytes of the strings the URLs are made of
Bytes(str) ==
    CASE str = "http" -> <<104, 116, 116, 112>>
      [] str = "https" -> <<104, 116, 116, 112, 115>>
      [] str = "h" -> <<104>>
      [] str = "x" -> <<120>>
      [] str = "/" -> <<47>>
      [] str = "/a" -> <<47, 97>>
      [] str = "/b" -> <<47, 98>>

\* url.String(), the key of siteURLS: scheme, "://", host, path
String(u) == Bytes(u.scheme) \o <<58, 47, 47>> \o Bytes(u.host) \o Bytes(u.path)

\* the newline WriteMap writes after each URL
Newline == <<10>>

RECURSIVE Less(_, _)
\* a < b for two Go strings: byte by byte, a proper prefix is smaller
Less(a, b) ==
    IF b = <<>> THEN FALSE
    ELSE IF a = <<>> THEN TRUE
    ELSE IF Head(a) # Head(b) THEN Head(a) < Head(b)
    ELSE Less(Tail(a), Tail(b))

RECURSIVE InsertString(_, _)
\* str placed in the sorted sequence before the first larger string
InsertString(sorted, str) ==
    IF sorted = <<>> THEN <<str>>
    ELSE IF Less(str, Head(sorted)) THEN <<str>> \o sorted
    ELSE <<Head(sorted)>> \o InsertString(Tail(sorted), str)

RECURSIVE SortFrom(_, _)
SortFrom(sorted, paths) ==
    IF paths = <<>> THEN sorted
    ELSE SortFrom(InsertString(sorted, Head(paths)), Tail(paths))

\* a WriteMap that writes the paths in the order the map yields them
SortStringsForgotten(paths) == paths

\* sort.Strings(paths)
SortStrings(paths) == SortFrom(<<>>, paths)

RECURSIVE WriteStrings(_)
\* for _, path := range paths: the path, then "\n"
WriteStrings(paths) ==
    IF paths = <<>> THEN <<>>
    ELSE Head(paths) \o Newline \o WriteStrings(Tail(paths))

\* the orders in which ranging over the map can yield its keys
RangeOrders(urls) ==
    {order \in [1..Cardinality(urls) -> urls] :
        \A i, j \in DOMAIN order : order[i] = order[j] => i = j}

\* WriteMap, called on the site map Crawl returned: under the read lock the
\* keys are collected in the order the map yields them, sorted and written
WriteMap ==
    /\ Running
    /\ crawlPC = "returned"
    /\ result = "sitemap"
    /\ crawlPC' = "written"
    /\ \E order \in RangeOrders(siteURLS) :
           LET paths == [i \in DOMAIN order |-> String(order[i])]
           IN  written' = WriteStrings(SortStrings(paths))
    /\ UNCHANGED <<config, site, siteURLS, pendingURLS, closed, pendingURLSRemaining,
                   waiters, accessedPageCount, timedOut, timerPC, result, returnedMap,
                   panicked, firedEarly, readLog, rwl, writePaths, clients, options>>
    /\ UNCHANGED <<workerVars, historyVars>>

\* a crawl that has returned its site map, which can hold any set of
\* in-domain URLs; the histories of the crawl are left out
WriteMapInit ==
    /\ config \in {c \in Configs : c.MaxConcurrency = 1 /\ c.MaxPendingURLS = 1}
    /\ site \in {Serve([p \in Paths |-> NotFound])}
    /\ siteURLS \in SUBSET InDomain
    /\ returnedMap = siteURLS
    /\ crawlPC = "returned"
    /\ result = "sitemap"
    /\ pendingURLS = <<>>
    /\ closed = TRUE
    /\ pendingURLSRemaining = 0
    /\ waiters = 0
    /\ accessedPageCount = 1
    /\ timedOut = FALSE
    /\ timerPC = "off"
    /\ pc = [w \in Workers |-> "idle"]
    /\ pageURL = [w \in Workers |-> NoURL]
    /\ linkReader = [w \in Workers |-> NewLinkReader]
    /\ hrefResolved = [w \in Workers |-> NoURL]
    /\ panicked = "none"
    /\ pushes = [u \in URLs |-> 0]
    /\ gets = [u \in URLs |-> 0]
    /\ pops = 0
    /\ dones = 0
    /\ dropped = {}
    /\ admitTrue = [u \in URLs |-> 0]
    /\ admitFalse = [u \in URLs |-> FALSE]
    /\ firedEarly = FALSE
    /\ written = <<>>
    /\ readLog = <<>>
    /\ rwl = Unlocked
    /\ writePaths = <<>>
    /\ clients = ClientsOf(config)
    /\ options = <<>>

WriteMapSpec == WriteMapInit /\ [][WriteMap]_vars

\* ------------------------------------------------------------------------
\* WriteMap step by step, on a site map that a worker left behind by Crawl is
\* still appending to
\* ------------------------------------------------------------------------

\* Crawl has returned the site map while worker 1, which was between its send
\* and its Add when Wait was released, is inside appendURL for the next link
\* of its page and about to ask for the write lock
RenderInit ==
    /\ config \in {c \in Configs : c.MaxConcurrency = 2 /\ c.MaxPendingURLS = 1}
    /\ site \in {Serve([p \in Paths |-> NotFound])}
    /\ siteURLS \in {s \in SUBSET InDomain : root \in s}
    /\ returnedMap = siteURLS
    /\ crawlPC = "returned"
    /\ result = "sitemap"
    /\ pendingURLS = <<>>
    /\ closed = TRUE
    /\ pendingURLSRemaining = 1
    /\ waiters = 0
    /\ accessedPageCount = 2
    /\ timedOut = FALSE
    /\ timerPC = "off"
    /\ pc = [w \in Workers |-> IF w = 1 THEN "appendLock" ELSE "idle"]
    /\ pageURL = [w \in Workers |-> IF w = 1 THEN root ELSE NoURL]
    /\ linkReader = [w \in Workers |->
                        IF w = 1 THEN [doc |-> TRUE, done |-> FALSE, body |-> "open", pos |-> 2]
                        ELSE NewLinkReader]
    /\ \E u \in InDomain :
           hrefResolved = [w \in Workers |-> IF w = 1 THEN u ELSE NoURL]
    /\ panicked = "none"
    /\ pushes = [u \in URLs |-> 0]
    /\ gets = [u \in URLs |-> 0]
    /\ pops = 0
    /\ dones = 0
    /\ dropped = {}
    /\ admitTrue = [u \in URLs |-> 0]
    /\ admitFalse = [u \in URLs |-> FALSE]
    /\ firedEarly = FALSE
    /\ written = <<>>
    /\ readLog = <<>>
    /\ rwl = Unlocked
    /\ writePaths = <<>>
    /\ clients = ClientsOf(config)
    /\ options = <<>>

\* s.rwl.RLock(), which waits while the write lock is held
RLockReady(l) == ~l.writer

\* s.rwl.Lock(), which waits while any lock is held
LockReady(l) == l.readers = 0 /\ ~l.writer

\* WriteMap from RLock to the end of the range loop: the keys are collected
\* in the order the map yields them
WriteMapCollect ==
    /\ Running
    /\ crawlPC = "returned"
    /\ result = "sitemap"
    /\ RLockReady(rwl)
    /\ rwl' = [rwl EXCEPT !.readers = @ + 1]
    /\ \E order \in RangeOrders(siteURLS) :
           writePaths' = [i \in DOMAIN order |-> String(order[i])]
    /\ crawlPC' = "sort"
    /\ UNCHANGED <<config, site, siteURLS, pendingURLS, closed, pendingURLSRemaining,
                   waiters, accessedPageCount, timedOut, timerPC, result, returnedMap,
                   panicked, firedEarly, written, readLog, clients, options>>
    /\ UNCHANGED <<workerVars, historyVars>>

\* sort.Strings(paths)
WriteMapSort ==
    /\ Running
    /\ crawlPC = "sort"
    /\ writePaths' = SortStrings(writePaths)
    /\ crawlPC' = "write"
    /\ UNCHANGED <<config, site, siteURLS, pendingURLS, closed, pendingURLSRemaining,
                   waiters, accessedPageCount, timedOut, timerPC, result, returnedMap,
                   panicked, firedEarly, written, readLog, rwl, clients, options>>
    /\ UNCHANGED <<workerVars, historyVars>>

\* the loop of io.WriteString calls
WriteMapWrite ==
    /\ Running
    /\ crawlPC = "write"
    /\ written' = WriteStrings(writePaths)
    /\ crawlPC' = "unlock"
    /\ UNCHANGED <<config, site, siteURLS, pendingURLS, closed, pendingURLSRemaining,
                   waiters, accessedPageCount, timedOut, timerPC, result, returnedMap,
                   panicked, firedEarly, readLog, rwl, writePaths, clients, options>>
    /\ UNCHANGED <<workerVars, historyVars>>

\* the deferred s.rwl.RUnlock(), run when WriteMap returns
WriteMapRUnlock ==
    /\ Running
    /\ crawlPC = "unlock"
    /\ rwl' = [rwl EXCEPT !.readers = @ - 1]
    /\ crawlPC' = "written"
    /\ UNCHANGED <<config, site, siteURLS, pendingURLS, closed, pendingURLSRemaining,
                   waiters, accessedPageCount, timedOut, timerPC, result, returnedMap,
                   panicked, firedEarly, written, readLog, writePaths, clients, options>>
    /\ UNCHANGED <<workerVars, historyVars>>

\* appendURL: s.rwl.Lock()
SiteMapLock(w) ==
    /\ Running
    /\ pc[w] = "appendLock"
    /\ LockReady(rwl)
    /\ rwl' = [rwl EXCEPT !.writer = TRUE]
    /\ pc' = [pc EXCEPT ![w] = "appendLocked"]
    /\ UNCHANGED <<config, site, siteURLS, pendingURLS, closed, pendingURLSRemaining,
                   waiters, accessedPageCount, timedOut, timerPC, pageURL, linkReader,
                   hrefResolved, panicked>>
    /\ UNCHANGED <<crawlVars, historyVars>>
    /\ UNCHANGED <<firedEarly, written, readLog, writePaths, clients, options>>

\* appendURL from the second check to Unlock and the return
SiteMapUnlock(w) ==
    /\ Running
    /\ pc[w] = "appendLocked"
    /\ siteURLS' = siteURLS \cup {hrefResolved[w]}
    /\ rwl' = [rwl EXCEPT !.writer = FALSE]
    /\ IF CrawlUnderLock(siteURLS, hrefResolved[w])
       THEN /\ pc' = [pc EXCEPT ![w] = "push"]
            /\ admitTrue' = [admitTrue EXCEPT ![hrefResolved[w]] = @ + 1]
            /\ UNCHANGED <<hrefResolved, admitFalse>>
       ELSE /\ pc' = [pc EXCEPT ![w] = "read"]
            /\ hrefResolved' = [hrefResolved EXCEPT ![w] = NoURL]
            /\ admitFalse' = [admitFalse EXCEPT ![hrefResolved[w]] = TRUE]
            /\ UNCHANGED admitTrue
    /\ UNCHANGED <<config, site, pendingURLS, closed, pendingURLSRemaining, waiters,
                   accessedPageCount, timedOut, timerPC, pageURL, linkReader, panicked>>
    /\ UNCHANGED <<crawlVars, pushes, gets, pops, dones, dropped>>
    /\ UNCHANGED <<firedEarly, written, readLog, writePaths, clients, options>>

RenderNext ==
    \/ WriteMapCollect
    \/ WriteMapSort
    \/ WriteMapWrite
    \/ WriteMapRUnlock
    \/ \E w \in Workers : SiteMapLock(w)
    \/ \E w \in Workers : SiteMapUnlock(w)

RenderSpec == RenderInit /\ [][RenderNext]_vars

\* ------------------------------------------------------------------------
\* One LinkReader, used by a caller of the package: any sequence of Read
\* and Close calls
\* ------------------------------------------------------------------------

\* the pages a LinkReader is tried on: those of the crawl, and a redirect whose
\* body repeats its target as a link, as the handlers of net/http write it
ReaderPages ==
    PageSet \cup {Page("redirect", <<RelHref("/a")>>, "eof", RelHref("/a"))}

\* the reader that is called, and the page it was made for
TheReader == linkReader[1]
ThePage == site[root.path]

\* NewLinkReader(pageURL, client) for the root URL of a server; no crawl
ReaderInit ==
    /\ config \in {c \in Configs : c.MaxConcurrency = 1 /\ c.MaxPendingURLS = 1
                                       /\ c.CrawlTimeout = 0}
    /\ site \in {Serve([p \in {root.path} |-> page]) : page \in ReaderPages}
    /\ crawlPC = "start"
    /\ siteURLS = {}
    /\ pendingURLS = <<>>
    /\ closed = FALSE
    /\ pendingURLSRemaining = 0
    /\ waiters = 0
    /\ accessedPageCount = 0
    /\ timedOut = FALSE
    /\ timerPC = "off"
    /\ result = "none"
    /\ returnedMap = {}
    /\ pc = [w \in Workers |-> "idle"]
    /\ pageURL = [w \in Workers |-> IF w = 1 THEN root ELSE NoURL]
    /\ linkReader = [w \in Workers |-> NewLinkReader]
    /\ hrefResolved = [w \in Workers |-> NoURL]
    /\ panicked = "none"
    /\ pushes = [u \in URLs |-> 0]
    /\ gets = [u \in URLs |-> 0]
    /\ pops = 0
    /\ dones = 0
    /\ dropped = {}
    /\ admitTrue = [u \in URLs |-> 0]
    /\ admitFalse = [u \in URLs |-> FALSE]
    /\ firedEarly = FALSE
    /\ written = <<>>
    /\ readLog = <<>>
    /\ rwl = Unlocked
    /\ writePaths = <<>>
    /\ clients = ClientsOf(config)
    /\ options = <<>>

\* one entry of the log of calls: the call, what it returned, whether it
\* issued a GET, and the reader before and after it
Call(name, kind, href, get, before, after) ==
    [call |-> name, kind |-> kind, href |-> href, get |-> get,
     before |-> before, after |-> after]

\* a call of Read by the caller
ReaderRead ==
    /\ Len(readLog) < MaxCalls
    /\ LET res == Read(TheReader, pageURL[1])
       IN  /\ linkReader' = [linkReader EXCEPT ![1] = res.reader]
           /\ gets' = IF res.get
                      THEN [gets EXCEPT ![pageURL[1]] = @ + 1]
                      ELSE gets
           /\ readLog' = Append(readLog, Call("Read", res.kind, res.href, res.get,
                                              TheReader, res.reader))
    /\ UNCHANGED <<config, site, siteURLS, pendingURLS, closed, pendingURLSRemaining,
                   waiters, accessedPageCount, timedOut, timerPC, pc, pageURL,
                   hrefResolved, panicked>>
    /\ UNCHANGED <<crawlVars, pushes, pops, dones, dropped, admitTrue, admitFalse>>
    /\ UNCHANGED <<firedEarly, written, rwl, writePaths, clients, options>>

\* a call of Close by the caller
ReaderClose ==
    /\ Len(readLog) < MaxCalls
    /\ linkReader' = [linkReader EXCEPT ![1] = Close(TheReader)]
    /\ readLog' = Append(readLog, Call("Close", "nil", NoHref, FALSE,
                                       TheReader, Close(TheReader)))
    /\ UNCHANGED <<config, site, siteURLS, pendingURLS, closed, pendingURLSRemaining,
                   waiters, accessedPageCount, timedOut, timerPC, pc, pageURL,
                   hrefResolved, panicked>>
    /\ UNCHANGED <<crawlVars, historyVars>>
    /\ UNCHANGED <<firedEarly, written, rwl, writePaths, clients, options>>

ReaderNext == ReaderRead \/ ReaderClose

ReaderSpec == ReaderInit /\ [][ReaderNext]_vars

TypeOK ==
    /\ config \in Configs
    /\ site \in Sites
    /\ siteURLS \subseteq URLs
    /\ pendingURLS \in Seq(URLs)
    /\ closed \in BOOLEAN
    /\ pendingURLSRemaining \in Int
    /\ accessedPageCount \in Nat
    /\ timedOut \in BOOLEAN

\* ------------------------------------------------------------------------
\* Vocabulary of the properties
\* ------------------------------------------------------------------------

\* Wait has returned
WaitReleased == crawlPC \in {"close", "load", "returned"}

\* C1: the outstanding-work count is zero only when every URL placed in the
\* backlog has been popped and fully processed, and Wait is not released while
\* an entry is queued or a worker is processing a page
C1_ZeroOnlyWhenAllProcessed ==
    /\ pendingURLSRemaining = 0 => AllProcessed
    /\ WaitReleased => AllProcessed

\* C1, reached: the counter is zero while the worker that sent a URL has not
\* yet registered it
C1_ZeroWhileProcessing ==
    pendingURLSRemaining = 0 /\ \E w \in Workers : pc[w] = "add"

\* the crawl has no deadline and no send has been rejected so far
WithinCapacityNoDeadline == config.CrawlTimeout = 0 /\ dropped = {}

\* C2: on a finite site whose pending URLs never exceed the capacity, with no
\* deadline, the outstanding-work count is exactly zero at the step at which
\* Crawl returns
C2_ZeroCountAtReturn ==
    [][(WithinCapacityNoDeadline /\ crawlPC = "load" /\ crawlPC' = "returned")
         => pendingURLSRemaining' = 0]_vars

\* C3: over all appendURL calls for one in-domain URL string exactly one
\* returns true: never two, and none returns false before one returned true
C3_AdmittedExactlyOnce ==
    \A u \in InDomain :
        /\ admitTrue[u] <= 1
        /\ admitFalse[u] => admitTrue[u] = 1
        /\ u \in siteURLS <=> admitTrue[u] = 1

\* C3, reached: a call that passed the check under the read lock waits for the
\* write lock while another call has already admitted the same URL
C3_LostRaceWitness ==
    \E w \in Workers :
        /\ pc[w] = "appendLock"
        /\ hrefResolved[w] \in siteURLS
        /\ admitTrue[hrefResolved[w]] = 1

\* C4: no URL string is placed in the backlog more than once, the root seed
\* included, and none is fetched twice
C4_QueuedAndFetchedOnce ==
    \A u \in URLs : pushes[u] <= 1 /\ gets[u] <= 1

\* C5: a worker that is past the pop can always take its next step, a push on
\* a full backlog included; workers waiting at the pop proceed when the
\* backlog holds an entry or is closed; and while the process runs and work
\* is outstanding some worker can take a step
C5_NeverAllBlocked ==
    Running =>
        /\ \A w \in Workers : pc[w] \in Processing \cup {"release"} => ENABLED Worker(w)
        /\ (pendingURLS # <<>> \/ closed) =>
               \A w \in Workers : pc[w] = "pop" =>
                   \E v \in Workers : pc[v] = "pop" /\ ENABLED Worker(v)
        /\ (Launched # {} /\ (pendingURLSRemaining > 0 \/ pendingURLS # <<>>)) =>
               \E w \in Launched : ENABLED Worker(w)

\* C5, reached: a worker attempts a push on a full, open backlog
C5_PushOnFullWitness ==
    /\ Running
    /\ ~closed
    /\ Len(pendingURLS) = config.MaxPendingURLS
    /\ \E w \in Workers : pc[w] = "push"

RECURSIVE SumOver(_, _)
\* the sum of f over the set S
SumOver(f, S) ==
    IF S = {} THEN 0
    ELSE LET x == CHOOSE y \in S : TRUE
         IN  f[x] + SumOver(f, S \ {x})

\* the sends accepted by the backlog, the seed not counted
Accepted == SumOver(pushes, URLs) - 1

\* the resolved URLs of the links a page at url carries
LinksOf(url) ==
    LET page == Get(url)
    IN  IF page.status = "fail" THEN {}
        ELSE IF page.status = "redirect" THEN {ResolveReference(url, page.location)}
        ELSE {ResolveReference(url, page.links[i]) :
                 i \in {j \in 1..Len(page.links) : ~ParseFails(page.links[j])}}

\* the distinct in-domain links the root page offers
RootOffers == LinksOf(root) \cap InDomain

\* the single worker has read the root page to its end and nothing else
RootPageRead ==
    /\ config.MaxConcurrency = 1
    /\ pops = 1
    /\ gets[root] = 1
    /\ pc[1] \in {"close", "done"}

\* C6: with concurrency 1 and capacity C, once the root page has offered C+k
\* distinct in-domain links, exactly C were accepted and exactly k dropped; the
\* crawl never panics, and it can always go on until Crawl has returned and
\* the worker has left
C6_Backpressure ==
    /\ (RootPageRead /\ Cardinality(RootOffers) > config.MaxPendingURLS) =>
           /\ Accepted = config.MaxPendingURLS
           /\ Cardinality(dropped) = Cardinality(RootOffers) - config.MaxPendingURLS
           /\ dropped \subseteq siteURLS
    /\ config.MaxConcurrency = 1 =>
           /\ Running
           /\ ~(crawlPC = "returned" /\ pc[1] = "exited") => ENABLED Next

\* C6, reached: the root page offered more links than the backlog holds and
\* the surplus was dropped
C6_DroppedWitness ==
    /\ RootPageRead
    /\ Cardinality(RootOffers) > config.MaxPendingURLS
    /\ dropped # {}

\* C7: every URL popped is marked done exactly once, by the worker that holds
\* it: the pops not yet matched by a Done are those of the workers that still
\* hold a URL
C7_OneDonePerPop ==
    pops = dones + Cardinality(Holding)

\* C7, reached: a root page that ended in a read error and a URL skipped
\* because of the timeout have both been marked done
C7_SkippedDoneWitness ==
    /\ timedOut
    /\ dones = pops
    /\ dones >= 2
    /\ \E u \in InDomain : pushes[u] > gets[u]
    /\ Get(root).status = "ok"
    /\ Get(root).tail = "err"

\* C8: the outstanding-work count is never negative
C8_CountNonNegative ==
    pendingURLSRemaining >= 0

\* C8, reached: the counter is zero while two workers have each sent a URL
\* they have not registered yet, and the URLs they hold are already done
C8_TwoUnregisteredWitness ==
    /\ pendingURLSRemaining = 0
    /\ dones >= 1
    /\ \E w1, w2 \in Workers : w1 # w2 /\ pc[w1] = "add" /\ pc[w2] = "add"

RECURSIVE Reachable(_)
\* the in-domain pages reachable from the pages in S through in-domain links
Reachable(S) ==
    LET next == S \cup ((UNION {LinksOf(u) : u \in S}) \cap InDomain)
    IN  IF next = S THEN S ELSE Reachable(next)

\* the site map of the complete crawl: the in-domain links of every page
\* reachable from the root
FullSiteMap == (UNION {LinksOf(u) : u \in Reachable({root})}) \cap InDomain

\* C9: when the deadline fired before the crawl was complete, Crawl returns
\* no error and a non-empty subset of the complete crawl's site map
C9_PartialResultOnDeadline ==
    (firedEarly /\ crawlPC = "returned") =>
        /\ result = "sitemap"
        /\ returnedMap # {}
        /\ returnedMap \subseteq FullSiteMap

\* the root page answered its GET
RootFetched == gets[root] > 0 /\ Get(root).status # "fail"

\* C10: Crawl returns the error exactly when the root could not be fetched and
\* nothing was discovered, and a site map whenever the root was fetched
C10_ErrorIffRootUnreachable ==
    crawlPC = "returned" =>
        /\ result = "error" <=> (~RootFetched /\ siteURLS = {})
        /\ RootFetched => result = "sitemap"

\* C11: Crawl returns to its caller only after the backlog has been closed
\* and every worker it launched has exited: no worker is still running once
\* Crawl has returned
C11_ReturnsAfterWorkersExit ==
    crawlPC = "returned" =>
        /\ closed
        /\ \A w \in Launched : pc[w] = "exited"

\* the URLs whose host is not the root's
ForeignURLs == {u \in URLs : u.host # root.host}

\* C12: under the default domain policy an appendURL call for a URL whose
\* host differs from the root's returns false, whatever the scheme or the
\* path, and leaves the URL set of the site map as it was
C12_ForeignHostRejected ==
    [][\A w \in Workers :
          (pc[w] = "append" /\ hrefResolved[w] \in ForeignURLs /\ pc'[w] # "append") =>
              /\ pc'[w] = "read"
              /\ admitFalse'[hrefResolved[w]]
              /\ admitTrue' = admitTrue
              /\ siteURLS' = siteURLS]_vars

\* C12, reached: appendURL has returned false for two foreign URLs that differ
\* in scheme and path, one a redirect target and one a link, and true for an
\* in-domain link
C12_ForeignRejectedWitness ==
    /\ admitFalse[[scheme |-> RootScheme, host |-> ExtHost, path |-> "/"]]
    /\ admitFalse[[scheme |-> "https", host |-> ExtHost, path |-> "/a"]]
    /\ \E u \in InDomain : admitTrue[u] = 1

\* C13: every GET of a crawl targets the root or a URL appendURL admitted,
\* and a URL of another host, link or redirect target, is never admitted to
\* the site map, never queued, never popped and never fetched
C13_OnlyAdmittedFetched ==
    /\ \A u \in URLs : gets[u] > 0 => (u = root \/ admitTrue[u] > 0)
    /\ \A u \in ForeignURLs :
           /\ u \notin siteURLS
           /\ admitTrue[u] = 0
           /\ pushes[u] = 0
           /\ gets[u] = 0
           /\ \A i \in 1..Len(pendingURLS) : pendingURLS[i] # u
           /\ \A w \in Workers : pageURL[w] # u

\* C13, reached: the root answered with a redirect to another host, the
\* target was rejected and the crawl returned without another GET
C13_ForeignRedirectWitness ==
    /\ crawlPC = "returned"
    /\ Get(root).status = "redirect"
    /\ ResolveReference(root, Get(root).location) \in ForeignURLs
    /\ admitFalse[ResolveReference(root, Get(root).location)]
    /\ gets[root] = 1
    /\ \A u \in URLs \ {root} : gets[u] = 0

\* the target of the redirect the page at p answers with
RedirectTarget(p) == ResolveReference(p, Get(p).location)

\* the in-domain pages that were fetched, are linked by a fetched page and
\* answered with a redirect to an in-domain target
RedirectedInDomain ==
    {p \in InDomain :
        /\ gets[p] > 0
        /\ Get(p).status = "redirect"
        /\ RedirectTarget(p) \in InDomain
        /\ \E q \in URLs : gets[q] > 0 /\ p \in LinksOf(q)}

\* C14: a fetched in-domain page that a crawled page links to and that
\* answers with a redirect to an in-domain target contributes the target as
\* its only link, and the page and the target are both in the site map Crawl
\* returns
C14_RedirectTargetInMap ==
    \A p \in RedirectedInDomain :
        /\ \A w \in Workers :
               (pageURL[w] = p /\ hrefResolved[w] # NoURL) =>
                   hrefResolved[w] = RedirectTarget(p)
        /\ crawlPC = "returned" =>
               /\ result = "sitemap"
               /\ p \in returnedMap
               /\ RedirectTarget(p) \in returnedMap

\* no page reachable from the root fails its GET or the read of its body
NoFetchFailure ==
    \A u \in Reachable({root}) : Get(u).status # "fail" /\ Get(u).tail = "eof"

\* C15: with no deadline, no rejected send and no fetch failure, the site
\* map Crawl returns is exactly the set of in-domain URLs that are a link or
\* a redirect target on a page reachable from the root
C15_CompleteSiteMap ==
    (/\ WithinCapacityNoDeadline
     /\ NoFetchFailure
     /\ crawlPC = "returned") =>
        /\ result = "sitemap"
        /\ returnedMap = FullSiteMap

\* the invalid configurations: no concurrency, no capacity, or no client,
\* logger or domain validator
Invalid(c) ==
    \/ c.MaxConcurrency <= 0
    \/ c.MaxPendingURLS <= 0
    \/ c.Client = Nil
    \/ c.Logger = Nil
    \/ c.DomainValidator = Nil

\* the results that are an error of Config.Validate
ConfigErrors == {ValidateErrors[i] : i \in DOMAIN ValidateErrors}

\* no channel was made or seeded, no worker or timer started, no GET issued
NothingStarted ==
    /\ pendingURLS = <<>>
    /\ ~closed
    /\ pendingURLSRemaining = 0
    /\ Launched = {}
    /\ timerPC = "off"
    /\ \A u \in URLs : pushes[u] = 0 /\ gets[u] = 0

\* C16: with an invalid configuration the call fails with the configuration
\* error before the backlog is made or seeded, before a worker is launched
\* and before a GET is issued
C16_InvalidConfigFailsFast ==
    (crawlPC # "options" /\ Invalid(config)) =>
        /\ crawlPC \in {"start", "returned"}
        /\ crawlPC = "returned" => result \in ConfigErrors
        /\ NothingStarted

\* C16, reached: a config without a client, valid otherwise, was handed to
\* NewDomainCrawler and the call returned the client error
C16_MissingClientWitness ==
    /\ crawlPC = "returned"
    /\ config.Client = Nil
    /\ config.MaxConcurrency > 0
    /\ config.MaxPendingURLS > 0
    /\ config.Logger # Nil
    /\ config.DomainValidator # Nil
    /\ result = "config.Client must be defined"

\* C17 as stated: a configuration with a negative CrawlTimeout is rejected
\* with a configuration error: nothing is started
C17_NegativeDeadlineRejected ==
    (crawlPC # "options" /\ config.CrawlTimeout < 0) =>
        /\ crawlPC \in {"start", "returned"}
        /\ crawlPC = "returned" => result \in ConfigErrors
        /\ NothingStarted

\* the configuration is valid but for its CrawlTimeout
ValidButDeadline(c) ==
    /\ ~Invalid(c)
    /\ c.KeepAlive >= 0
    /\ c.Timeout >= 0

\* C17, amended: a negative CrawlTimeout is not a configuration error: the
\* crawl of a configuration valid otherwise starts and runs with no
\* deadline, the timeout goroutine is not started and timedOut is never set
C17_NegativeDeadlineMeansNone ==
    (crawlPC # "options" /\ config.CrawlTimeout < 0) =>
        /\ timerPC = "off"
        /\ ~timedOut
        /\ ~firedEarly
        /\ ValidButDeadline(config) => result \notin ConfigErrors
        /\ (ValidButDeadline(config) /\ crawlPC = "start") => ENABLED NewDomainCrawler
        /\ (ValidButDeadline(config) /\ crawlPC = "returned") => result \in {"error", "sitemap"}

\* C17, reached: the crawl of a configuration with a negative CrawlTimeout
\* fetched the root and returned a site map
C17_NegativeDeadlineCrawled ==
    /\ config.CrawlTimeout < 0
    /\ crawlPC = "returned"
    /\ result = "sitemap"
    /\ gets[root] = 1
    /\ returnedMap # {}

\* the checks of Validate as the condition each one requires, in its order
Requirements(c) ==
    << c.MaxConcurrency > 0,
       c.MaxPendingURLS > 0,
       c.KeepAlive >= 0,
       c.Timeout >= 0,
       c.Client # Nil,
       c.Logger # Nil,
       c.DomainValidator # Nil >>

\* C18: Validate returns nil exactly when every requirement holds, and else
\* the error that names the first violated requirement in the order
\* MaxConcurrency, MaxPendingURLS, KeepAlive, Timeout, Client, Logger,
\* DomainValidator
C18_ValidateFirstViolation ==
    crawlPC \notin {"options", "start"} =>
        LET req == Requirements(config)
            violated == {i \in DOMAIN req : ~req[i]}
        IN  /\ result \notin ConfigErrors <=> violated = {}
            /\ violated # {} =>
                   \E i \in violated :
                       /\ \A j \in violated : i <= j
                       /\ result = ValidateErrors[i]

\* C18, reached: of a negative KeepAlive and a missing logger the first one
\* is reported
C18_FirstOfTwoWitness ==
    /\ crawlPC = "returned"
    /\ config.MaxConcurrency > 0
    /\ config.MaxPendingURLS > 0
    /\ config.KeepAlive < 0
    /\ config.Timeout >= 0
    /\ config.Client # Nil
    /\ config.Logger = Nil
    /\ result = "config.KeepAlive duration should be >= 0s"

RECURSIVE SplitLines(_, _)
\* the lines of bytes that end in a newline, after the bytes of line; bytes
\* after the last newline make a line of their own
SplitLines(bytes, line) ==
    IF bytes = <<>> THEN (IF line = <<>> THEN <<>> ELSE <<line>>)
    ELSE IF <<Head(bytes)>> = Newline THEN <<line>> \o SplitLines(Tail(bytes), <<>>)
    ELSE SplitLines(Tail(bytes), Append(line, Head(bytes)))

\* C19: WriteMap writes the URL strings of the site map, each once, in
\* ascending byte order, each followed by a newline, and nothing else
C19_WritesSortedLines ==
    crawlPC = "written" =>
        LET lines == SplitLines(written, <<>>)
        IN  /\ written # <<>> => <<written[Len(written)]>> = Newline
            /\ {lines[i] : i \in DOMAIN lines} = {String(u) : u \in siteURLS}
            /\ Len(lines) = Cardinality(siteURLS)
            /\ \A i, j \in DOMAIN lines : i < j => Less(lines[i], lines[j])

\* C19, reached: a site map holding http and https URLs of all three paths
\* was written
C19_SixLinesWitness ==
    /\ crawlPC = "written"
    /\ siteURLS = InDomain
    /\ Cardinality(siteURLS) = 6
    /\ Len(written) = 67

\* C20: the backlog is closed once, by Crawl after Wait, and no worker
\* attempts a push on the closed backlog: the send on a closed channel never
\* happens
C20_NoSendAfterClose ==
    /\ closed => crawlPC \in {"load", "returned"}
    /\ closed => \A w \in Workers : pc[w] # "push"
    /\ panicked # "send on closed channel"

\* C21: an accepted push is counted together with the enqueue: the
\* outstanding-work count equals the entries in the backlog plus the popped
\* entries not yet marked done
C21_CountIsQueuedPlusHeld ==
    pendingURLSRemaining = Len(pendingURLS) + Cardinality(Holding)

\* C22 as stated: once the stopped flag is set no GET is issued any more
C22_NoFetchAfterStop ==
    [][timedOut => gets' = gets]_vars

\* C22, amended: a worker that pops a URL, or checks the flag for the URL it
\* popped, once the flag is set issues no GET for it and goes on to mark it
\* done; only a worker that passed its check before the flag was set still
\* fetches its page
C22_PoppedAfterStopSkipped ==
    [][\A w \in Workers :
          (timedOut /\ pc[w] \in {"pop", "check"} /\ pc'[w] # pc[w]) =>
              /\ gets' = gets
              /\ pc'[w] \in {"check", "done", "exited"}
              /\ pc[w] = "check" => pc'[w] = "done"]_vars

\* C22, reached: with the flag set a worker is about to mark done a link of
\* the root page that was never fetched, and a later link is queued behind it
C22_SkippedWitness ==
    /\ timedOut
    /\ pendingURLS # <<>>
    /\ \E w \in Workers :
          /\ pc[w] = "done"
          /\ pageURL[w] # root
          /\ gets[pageURL[w]] = 0
          /\ linkReader[w] = NewLinkReader

C23_DeadlineShutdownReturns ==
    firedEarly ~> (crawlPC = "returned" /\ AllProcessed /\ pendingURLSRemaining = 0)

\* C25: with a zero or negative CrawlTimeout no timer is armed and the
\* stopped flag stays false, every popped URL is fetched, and Crawl waits for
\* completion: it returns only when every queued URL has been processed
C25_NoDeadlineWaitsForCompletion ==
    (crawlPC \notin {"options", "start"} /\ config.CrawlTimeout <= 0) =>
        /\ timerPC = "off"
        /\ ~timedOut
        /\ \A w \in Workers :
               pc[w] \in Processing \ {"check", "read"} => gets[pageURL[w]] > 0
        /\ WaitReleased => AllProcessed

\* C26: a URL whose push was rejected on a full backlog stays in the site
\* map and is never placed in the backlog afterwards, whoever links to it
\* again (the root, which is seeded, keeps its one seeded entry); the
\* rejecting step leaves the worker on the same page, ready to read its next
\* link
C26_DroppedStaysMappedNeverQueued ==
    /\ [](\A u \in dropped :
             /\ u \in siteURLS
             /\ pushes[u] = (IF u = root THEN 1 ELSE 0)
             /\ \A i \in 1..Len(pendingURLS) : pendingURLS[i] = u => u = root)
    /\ [][\A w \in Workers :
             (pc[w] = "push" /\ dropped' # dropped /\ pc'[w] # pc[w]) =>
                 /\ pc'[w] = "read"
                 /\ pageURL'[w] = pageURL[w]
                 /\ linkReader'[w] = linkReader[w]
                 /\ ~linkReader[w].done]_vars

\* a dropped URL was linked again and refused, and a link that followed the
\* drop was taken into the backlog
C26_LinkedAgainWitness ==
    \E u \in dropped :
        /\ admitTrue[u] = 1 /\ admitFalse[u]
        /\ pushes[u] = 0
        /\ \E v \in InDomain \ {u, root} : pushes[v] > 0 /\ gets[v] > 0
        /\ crawlPC = "returned"

\* the calls of the log that are Reads
Reads == {i \in 1..Len(readLog) : readLog[i].call = "Read"}

\* C27: whatever the sequence of Read and Close calls on one LinkReader, at
\* most one GET is issued, and only the first Read issues it, also when an
\* earlier Read returned an error
C27_AtMostOneGet ==
    /\ gets[root] <= 1
    /\ \A i \in Reads : readLog[i].get => \A j \in Reads : j >= i

\* what resp.Location() gives for the page of the reader
LocationValue ==
    LET loc == ResolveReference(root, ThePage.location)
    IN  AbsHref(loc.scheme, loc.host, loc.path)

C29_BodyClosedBeforeDone ==
    \A w \in Workers :
        pc[w] = "done" =>
            /\ linkReader[w].body # "open"
            /\ linkReader[w].body = "closed" <=>
                   (linkReader[w].doc /\ Get(pageURL[w]).status # "fail")
            /\ linkReader[w] # NewLinkReader => linkReader[w].done

\* one worker is done with a page that ended in a read error and another with
\* a page whose GET failed
C29_ErrorAndFailedGetWitness ==
    \E w, v \in Workers :
        /\ pc[w] = "done" /\ pc[v] = "done"
        /\ Get(pageURL[w]).tail = "err" /\ Get(pageURL[w]).status = "ok"
        /\ linkReader[w].body = "closed" /\ linkReader[w].pos = 3
        /\ Get(pageURL[v]).status = "fail" /\ gets[pageURL[v]] > 0
        /\ linkReader[v].body = "none"

\* worker w is about to read an href that does not parse as a URL
ReadsBadHref(w) ==
    /\ pc[w] = "read"
    /\ Read(linkReader[w], pageURL[w]).kind = "href"
    /\ Read(linkReader[w], pageURL[w]).href = BadHref

\* C31: the step of a worker that reads an unparsable href admits nothing to
\* the site map, sends nothing, leaves the backlog and the outstanding-work
\* count as they are, and leaves the worker on the same page, one href
\* further, with the reader still open for the remaining links
C31_BadHrefSkipped ==
    [][\A w \in Workers :
          (ReadsBadHref(w) /\ linkReader'[w] # linkReader[w]) =>
              /\ siteURLS' = siteURLS
              /\ pendingURLS' = pendingURLS
              /\ pendingURLSRemaining' = pendingURLSRemaining
              /\ pushes' = pushes /\ admitTrue' = admitTrue /\ dropped' = dropped
              /\ pc'[w] = "read"
              /\ pageURL'[w] = pageURL[w]
              /\ hrefResolved'[w] = hrefResolved[w]
              /\ linkReader'[w].pos = linkReader[w].pos + 1
              /\ ~linkReader'[w].done /\ linkReader'[w].body = "open"]_vars

\* a link that followed an unparsable href on the root page was admitted,
\* queued and fetched
C31_LaterLinkProcessedWitness ==
    /\ site[root.path].links # <<>>
    /\ site[root.path].links[1] = BadHref
    /\ \E u \in InDomain \ {root} :
          /\ admitTrue[u] = 1 /\ pushes[u] = 1 /\ gets[u] = 1
          /\ \A v \in InDomain \ {root, u} : pushes[v] = 0

\* WriteMap has taken its snapshot and is sorting or writing
AfterSnapshot == crawlPC \in {"sort", "write"}

\* C32: once WriteMap has taken its snapshot it holds no read lock, so an
\* appendURL that asks for the write lock while WriteMap sorts and writes
\* gets it
C32_LockHeldForSnapshotOnly ==
    AfterSnapshot =>
        /\ rwl.readers = 0
        /\ \A w \in Workers : pc[w] = "appendLock" => ENABLED SiteMapLock(w)

\* C33: the URL set of the site map only grows, and each of its entries has
\* the host of the root, which is what the domain validator demands, and was
\* entered by an appendURL call that returned true
C33_SiteMapGrowsInDomain ==
    /\ [](\A u \in siteURLS : u.host = root.host /\ admitTrue[u] >= 1)
    /\ [][siteURLS \subseteq siteURLS']_vars

\* the site map has grown to two URLs while appendURL has refused a URL of
\* another host
C33_GrownAndRefusedWitness ==
    /\ Cardinality(siteURLS) >= 2
    /\ \E u \in URLs : u.host # root.host /\ admitFalse[u] /\ u \notin siteURLS

\* NewConfig is applying SetClient(c) for the caller's client c
AppliesSetClient ==
    /\ crawlPC = "options"
    /\ options # <<>>
    /\ Head(options) = Option("SetClient", CallerClient, 0)

\* C34: SetClient(c) for a client c that is not nil points the config to a
\* new client that equals c except for a CheckRedirect that stops redirects,
\* no step changes c itself, and the client of the config that NewConfig
\* returns, set by the caller or built by default, never follows a redirect
C34_ClientNeverFollowsRedirect ==
    /\ [](crawlPC # "options" =>
              /\ config.Client \in DOMAIN clients \ {CallerClient}
              /\ ~FollowsRedirects(clients[config.Client]))
    /\ [][clients'[CallerClient] = clients[CallerClient]]_vars
    /\ [][(AppliesSetClient /\ options' # options) =>
              /\ config'.Client \in DOMAIN clients' \ {CallerClient}
              /\ clients'[config'.Client].CheckRedirect = "overrideRedirect"
              /\ \A f \in {"Transport", "MaxConns", "IdleConnTimeout", "Timeout"} :
                     clients'[config'.Client][f] = clients[CallerClient][f]]_vars

\* NewConfig has returned a config whose client is the copy of a caller's
\* client that follows redirects by its own policy and still does
C34_CopiedClientWitness ==
    /\ crawlPC = "start"
    /\ config.Client = OverrideClient
    /\ clients[CallerClient].CheckRedirect = "caller policy"
    /\ clients[CallerClient].Timeout = 1
    /\ clients[OverrideClient].Transport = "caller transport"
    /\ clients[OverrideClient].Timeout = 1
    /\ config.Timeout = 0

====
